---- MODULE Spec2Model ----
(***************************************************************************)
(* A model of the C wrapper around the Forthic gRPC runtime client         *)
(* (src/src/grpc/grpc_c_wrapper.h, grpc_c_wrapper.cpp): the StackValue     *)
(* API, the client API and the ErrorInfo API, over an explicit heap.       *)
(*                                                                         *)
(* Every protobuf message node (a StackValue's proto_value and each        *)
(* element of an array value) is one cell of `mem`; a StackValue handle    *)
(* is the address of its cell.  malloc'ed pointer arrays are cells of      *)
(* `containers`, ErrorInfo objects cells of `errs`, GrpcClient objects     *)
(* cells of `clients`.  What the caller holds and has to release is        *)
(* `owned`; `last` is the last call: its arguments, its return value and   *)
(* what it assigned through the caller's out-pointers.                     *)
(***************************************************************************)
EXTENDS Integers, Sequences, FiniteSets, TLC

VARIABLES mem, containers, errs, clients, owned, faults, pc, last

vars == <<mem, containers, errs, clients, owned, faults, pc, last>>

\* ---------------------------------------------------------------- bounds

\* Heap cells for StackValue messages, one size per specification.
ValueHeap == 4
CodecHeap == 5
ClientHeap == 2
AccessHeap == 3
\* malloc'ed pointer arrays, ErrorInfo objects and clients alive at once.
MaxContainers == 1
MaxErrors == 1
MaxClients == 1
\* The longest item list, argument stack and result stack.
MaxLen == 2

\* ------------------------------------------------- constants of the header

GRPC_OK == 0
GRPC_ERROR_INVALID_ARGUMENT == 1
GRPC_ERROR_NOT_FOUND == 2
GRPC_ERROR_ALREADY_EXISTS == 3
GRPC_ERROR_PERMISSION_DENIED == 4
GRPC_ERROR_RESOURCE_EXHAUSTED == 5
GRPC_ERROR_FAILED_PRECONDITION == 6
GRPC_ERROR_ABORTED == 7
GRPC_ERROR_OUT_OF_RANGE == 8
GRPC_ERROR_UNIMPLEMENTED == 9
GRPC_ERROR_INTERNAL == 10
GRPC_ERROR_UNAVAILABLE == 11
GRPC_ERROR_DATA_LOSS == 12
GRPC_ERROR_UNAUTHENTICATED == 13
GRPC_ERROR_UNKNOWN == 99

STACK_VALUE_NULL == 0
STACK_VALUE_INT == 1
STACK_VALUE_STRING == 2
STACK_VALUE_BOOL == 3
STACK_VALUE_FLOAT == 4
STACK_VALUE_ARRAY == 5
STACK_VALUE_RECORD == 6
STACK_VALUE_INSTANT == 7
STACK_VALUE_PLAIN_DATE == 8
STACK_VALUE_ZONED_DATETIME == 9

\* The null pointer.  Addresses are 1..n, so 0 is no object.
NULL == 0

\* A `const char*` argument is a text or the null pointer.
NullStr == "<nullptr>"

\* ------------------------------------------------ the protobuf StackValue

\* A default-constructed forthic::StackValue: no field of the oneof is set.
\* `items` holds the addresses of the elements of array_value; `other`
\* stands for the payload of the record and temporal variants.
ProtoStackValue ==
    [case |-> "VALUE_NOT_SET", int_value |-> 0, string_value |-> "",
     bool_value |-> FALSE, float_value |-> "0.0", items |-> <<>>, other |-> ""]

\* A cell that holds no object.
FreeCell == [ProtoStackValue EXCEPT !.case = "FREED"]

\* The generated setters, applied to a message with no field set.
mutable_null_value(p) == [p EXCEPT !.case = "null_value"]
set_int_value(p, val) == [p EXCEPT !.case = "int_value", !.int_value = val]
set_string_value(p, val) == [p EXCEPT !.case = "string_value", !.string_value = val]
set_bool_value(p, val) == [p EXCEPT !.case = "bool_value", !.bool_value = val]
set_float_value(p, val) == [p EXCEPT !.case = "float_value", !.float_value = val]
mutable_array_value(p) == [p EXCEPT !.case = "array_value"]

has_null_value(p) == p.case = "null_value"
has_int_value(p) == p.case = "int_value"
has_string_value(p) == p.case = "string_value"
has_bool_value(p) == p.case = "bool_value"
has_float_value(p) == p.case = "float_value"
has_array_value(p) == p.case = "array_value"
has_record_value(p) == p.case = "record_value"
has_instant_value(p) == p.case = "instant_value"
has_plain_date_value(p) == p.case = "plain_date_value"
has_zoned_datetime_value(p) == p.case = "zoned_datetime_value"

\* The generated accessors: the field when it is the one set, else its default.
int_value(p) == IF has_int_value(p) THEN p.int_value ELSE 0
string_value(p) == IF has_string_value(p) THEN p.string_value ELSE ""
bool_value(p) == IF has_bool_value(p) THEN p.bool_value ELSE FALSE
float_value(p) == IF has_float_value(p) THEN p.float_value ELSE "0.0"

\* ------------------------------------------------------------- the heap

IsFree(m, a) == m[a].case = "FREED"
FreeCount(m) == Cardinality({a \in DOMAIN m : IsFree(m, a)})

\* operator new: the lowest free cell.
NewCell(m) == CHOOSE a \in DOMAIN m : IsFree(m, a) /\ \A b \in DOMAIN m : b < a => ~IsFree(m, b)

\* The value a cell holds, its elements read through their addresses.
RECURSIVE Content(_, _)
Content(m, a) ==
    [m[a] EXCEPT !.items = [i \in DOMAIN m[a].items |-> Content(m, m[a].items[i])]]

RECURSIVE TreeSize(_)
TreeSize(t) ==
    IF t.items = <<>> THEN 1
    ELSE TreeSize(Head(t.items)) + TreeSize([t EXCEPT !.items = Tail(t.items)])

RECURSIVE SizeOfAll(_)
SizeOfAll(ts) == IF ts = <<>> THEN 0 ELSE TreeSize(Head(ts)) + SizeOfAll(Tail(ts))

\* The elements of message t are copied below cell a, each into a cell of
\* its own, in order.
RECURSIVE CopyFrom(_, _, _)
CopyFrom(m, a, t) ==
    IF t.items = <<>> THEN m
    ELSE LET c == NewCell(m)
             m1 == [m EXCEPT ![c] = [Head(t.items) EXCEPT !.items = <<>>],
                             ![a].items = Append(@, c)]
             m2 == CopyFrom(m1, c, Head(t.items))
         IN  CopyFrom(m2, a, [t EXCEPT !.items = Tail(t.items)])

\* `dst->proto_value = t` for a fresh StackValue dst: a deep copy of t.
AssignProto(m, dst, t) == CopyFrom([m EXCEPT ![dst] = [t EXCEPT !.items = <<>>]], dst, t)

\* Whether a cell or one below it is already released.
RECURSIVE Released(_, _)
Released(m, a) ==
    IsFree(m, a) \/ \E i \in DOMAIN m[a].items : Released(m, m[a].items[i])

\* The destructor of a message: the cell and every element below it.
RECURSIVE Destruct(_, _)
RECURSIVE DestructAll(_, _)
Destruct(m, a) ==
    IF IsFree(m, a) THEN m
    ELSE DestructAll([m EXCEPT ![a] = FreeCell], m[a].items)
DestructAll(m, cells) ==
    IF cells = <<>> THEN m ELSE DestructAll(Destruct(m, Head(cells)), Tail(cells))

\* The cells of the message at a.
RECURSIVE Reach(_, _)
Reach(m, a) ==
    {a} \cup UNION {Reach(m, m[a].items[i]) : i \in DOMAIN m[a].items}

SeqsUpTo(S, n) == UNION {[1..k -> S] : k \in 0..n}

\* ------------------------------------------------------- StackValue API

stack_value_create_null(m) ==
    LET value == NewCell(m)
    IN  [mem |-> [m EXCEPT ![value] = mutable_null_value(ProtoStackValue)], addr |-> value]

stack_value_create_int(m, val) ==
    LET value == NewCell(m)
    IN  [mem |-> [m EXCEPT ![value] = set_int_value(ProtoStackValue, val)], addr |-> value]

stack_value_create_string(m, val) ==
    LET value == NewCell(m)
    IN  [mem |-> [m EXCEPT ![value] = set_string_value(ProtoStackValue, val)], addr |-> value]

stack_value_create_bool(m, val) ==
    LET value == NewCell(m)
    IN  [mem |-> [m EXCEPT ![value] = set_bool_value(ProtoStackValue, val)], addr |-> value]

stack_value_create_float(m, val) ==
    LET value == NewCell(m)
    IN  [mem |-> [m EXCEPT ![value] = set_float_value(ProtoStackValue, val)], addr |-> value]

\* The loop of stack_value_create_array: `*array->add_items() = items[i]->proto_value`
\* for i = 0 .. len-1 (here 1 .. Len(items)).
RECURSIVE add_items(_, _, _, _)
add_items(m, value, items, i) ==
    IF i > Len(items) THEN m
    ELSE LET c == NewCell(m)
             t == Content(m, items[i])
             m1 == AssignProto([m EXCEPT ![value].items = Append(@, c)], c, t)
         IN  add_items(m1, value, items, i + 1)

\* The array keeps the caller's cells instead of copies of them.
stack_value_create_array_aliasing(m, items) ==
    LET value == NewCell(m)
    IN  [mem |-> [m EXCEPT ![value] = [mutable_array_value(ProtoStackValue) EXCEPT !.items = items]],
         addr |-> value]

\* The loop stops one element early (i < len - 1).
stack_value_create_array_short(m, items) ==
    LET value == NewCell(m)
        m1 == [m EXCEPT ![value] = mutable_array_value(ProtoStackValue)]
    IN  [mem |-> add_items(m1, value, SubSeq(items, 1, Len(items) - 1), 1), addr |-> value]

stack_value_create_array(m, items) ==
    LET value == NewCell(m)
        m1 == [m EXCEPT ![value] = mutable_array_value(ProtoStackValue)]
    IN  [mem |-> add_items(m1, value, items, 1), addr |-> value]

stack_value_get_type(m, value) ==
    IF value = NULL THEN STACK_VALUE_NULL
    ELSE LET proto == m[value]
         IN  IF has_null_value(proto) THEN STACK_VALUE_NULL
             ELSE IF has_int_value(proto) THEN STACK_VALUE_INT
             ELSE IF has_string_value(proto) THEN STACK_VALUE_STRING
             ELSE IF has_bool_value(proto) THEN STACK_VALUE_BOOL
             ELSE IF has_float_value(proto) THEN STACK_VALUE_FLOAT
             ELSE IF has_array_value(proto) THEN STACK_VALUE_ARRAY
             ELSE IF has_record_value(proto) THEN STACK_VALUE_RECORD
             ELSE IF has_instant_value(proto) THEN STACK_VALUE_INSTANT
             ELSE IF has_plain_date_value(proto) THEN STACK_VALUE_PLAIN_DATE
             ELSE IF has_zoned_datetime_value(proto) THEN STACK_VALUE_ZONED_DATETIME
             ELSE STACK_VALUE_NULL

stack_value_get_int(m, value) == IF value # NULL THEN int_value(m[value]) ELSE 0

stack_value_get_string(m, value) == IF value # NULL THEN string_value(m[value]) ELSE ""

stack_value_get_bool(m, value) == IF value # NULL THEN bool_value(m[value]) ELSE FALSE

stack_value_get_float(m, value) == IF value # NULL THEN float_value(m[value]) ELSE "0.0"

\* malloc(sizeof(StackValue*) * len): a fresh block; for len = 0 the library
\* may return the null pointer instead (null_on_zero).
HasBlock(cs) == \E p \in DOMAIN cs : ~cs[p].live
Malloc(cs, len, null_on_zero) ==
    IF len = 0 /\ null_on_zero THEN NULL
    ELSE CHOOSE p \in DOMAIN cs : ~cs[p].live /\ \A q \in DOMAIN cs : q < p => cs[q].live

\* The loop of stack_value_get_array over the elements `from`: a new
\* StackValue per element, `item->proto_value = array.items(i)`, stored at
\* items[i].
RECURSIVE copy_out(_, _, _, _)
copy_out(m, from, i, acc) ==
    IF i > Len(from) THEN [mem |-> m, addrs |-> acc]
    ELSE LET item == NewCell(m)
             m1 == AssignProto(m, item, Content(m, from[i]))
         IN  copy_out(m1, from, i + 1, Append(acc, item))

\* out_items, out_len: whether the caller passed the pointer.  `wrote` tells
\* whether *out_items and *out_len were assigned.
stack_value_get_array(m, cs, value, out_items, out_len, null_on_zero) ==
    IF value = NULL \/ ~out_items \/ ~out_len
    THEN [mem |-> m, containers |-> cs, wrote |-> FALSE, items |-> NULL, len |-> 0]
    ELSE IF ~has_array_value(m[value])
    THEN [mem |-> m, containers |-> cs, wrote |-> TRUE, items |-> NULL, len |-> 0]
    ELSE LET len == Len(m[value].items)
             items == Malloc(cs, len, null_on_zero)
             r == copy_out(m, m[value].items, 1, <<>>)
         IN  [mem |-> r.mem,
              containers |-> IF items = NULL THEN cs
                             ELSE [cs EXCEPT ![items] = [live |-> TRUE, items |-> r.addrs]],
              wrote |-> TRUE, items |-> items, len |-> len]

stack_value_destroy(m, value) == IF value = NULL THEN m ELSE Destruct(m, value)

\* `delete array[i]` for i < len, then free(array).
stack_value_array_destroy(m, cs, array, len) ==
    IF array = NULL THEN [mem |-> m, containers |-> cs]
    ELSE [mem |-> DestructAll(m, SubSeq(cs[array].items, 1, len)),
          containers |-> [cs EXCEPT ![array] = [live |-> FALSE, items |-> <<>>]]]

\* ----------------------------------------------------------- Client API

\* grpc::StatusCode: the codes gRPC defines, and one value outside them.
DefinedStatusCodes ==
    {"OK", "CANCELLED", "UNKNOWN", "INVALID_ARGUMENT", "DEADLINE_EXCEEDED", "NOT_FOUND",
     "ALREADY_EXISTS", "PERMISSION_DENIED", "RESOURCE_EXHAUSTED", "FAILED_PRECONDITION",
     "ABORTED", "OUT_OF_RANGE", "UNIMPLEMENTED", "INTERNAL", "UNAVAILABLE", "DATA_LOSS",
     "UNAUTHENTICATED"}
NovelStatusCodes == {"NOVEL_17"}
StatusCodes == DefinedStatusCodes \cup NovelStatusCodes

\* The case for UNAVAILABLE is missing from the switch.
status_to_error_code_missing_case(status) ==
    IF status = "OK" THEN GRPC_OK
    ELSE CASE status = "INVALID_ARGUMENT" -> GRPC_ERROR_INVALID_ARGUMENT
           [] status = "NOT_FOUND" -> GRPC_ERROR_NOT_FOUND
           [] status = "ALREADY_EXISTS" -> GRPC_ERROR_ALREADY_EXISTS
           [] status = "PERMISSION_DENIED" -> GRPC_ERROR_PERMISSION_DENIED
           [] status = "RESOURCE_EXHAUSTED" -> GRPC_ERROR_RESOURCE_EXHAUSTED
           [] status = "FAILED_PRECONDITION" -> GRPC_ERROR_FAILED_PRECONDITION
           [] status = "ABORTED" -> GRPC_ERROR_ABORTED
           [] status = "OUT_OF_RANGE" -> GRPC_ERROR_OUT_OF_RANGE
           [] status = "UNIMPLEMENTED" -> GRPC_ERROR_UNIMPLEMENTED
           [] status = "INTERNAL" -> GRPC_ERROR_INTERNAL
           [] status = "DATA_LOSS" -> GRPC_ERROR_DATA_LOSS
           [] status = "UNAUTHENTICATED" -> GRPC_ERROR_UNAUTHENTICATED
           [] OTHER -> GRPC_ERROR_UNKNOWN

status_to_error_code(status) ==
    IF status = "OK" THEN GRPC_OK
    ELSE CASE status = "INVALID_ARGUMENT" -> GRPC_ERROR_INVALID_ARGUMENT
           [] status = "NOT_FOUND" -> GRPC_ERROR_NOT_FOUND
           [] status = "ALREADY_EXISTS" -> GRPC_ERROR_ALREADY_EXISTS
           [] status = "PERMISSION_DENIED" -> GRPC_ERROR_PERMISSION_DENIED
           [] status = "RESOURCE_EXHAUSTED" -> GRPC_ERROR_RESOURCE_EXHAUSTED
           [] status = "FAILED_PRECONDITION" -> GRPC_ERROR_FAILED_PRECONDITION
           [] status = "ABORTED" -> GRPC_ERROR_ABORTED
           [] status = "OUT_OF_RANGE" -> GRPC_ERROR_OUT_OF_RANGE
           [] status = "UNIMPLEMENTED" -> GRPC_ERROR_UNIMPLEMENTED
           [] status = "INTERNAL" -> GRPC_ERROR_INTERNAL
           [] status = "UNAVAILABLE" -> GRPC_ERROR_UNAVAILABLE
           [] status = "DATA_LOSS" -> GRPC_ERROR_DATA_LOSS
           [] status = "UNAUTHENTICATED" -> GRPC_ERROR_UNAUTHENTICATED
           [] OTHER -> GRPC_ERROR_UNKNOWN

HasSlot(xs) == \E x \in DOMAIN xs : ~xs[x].live
NewSlot(xs) == CHOOSE x \in DOMAIN xs : ~xs[x].live /\ \A y \in DOMAIN xs : y < x => xs[y].live

\* out_client: whether the caller passed the pointer.  The channel is
\* created for the address as given, without connecting.
grpc_client_create(cl, address, out_client) ==
    IF address = NullStr \/ ~out_client
    THEN [clients |-> cl, ret |-> GRPC_ERROR_INVALID_ARGUMENT, wrote |-> FALSE, client |-> NULL]
    ELSE LET client == NewSlot(cl)
         IN  [clients |-> [cl EXCEPT ![client] = [live |-> TRUE, address |-> address]],
              ret |-> GRPC_OK, wrote |-> TRUE, client |-> client]

grpc_client_destroy(cl, client) ==
    IF client = NULL THEN cl ELSE [cl EXCEPT ![client] = [live |-> FALSE, address |-> ""]]

\* An ErrorInfo cell that holds no object.
NoErrorInfo == [live |-> FALSE, message |-> "", runtime |-> "", error_type |-> ""]

error_info_get_message(es, error) == IF error # NULL THEN es[error].message ELSE ""
error_info_get_runtime(es, error) == IF error # NULL THEN es[error].runtime ELSE ""
error_info_get_error_type(es, error) == IF error # NULL THEN es[error].error_type ELSE ""
error_info_destroy(es, error) == IF error = NULL THEN es ELSE [es EXCEPT ![error] = NoErrorInfo]

\* The request loop of grpc_client_execute_word:
\* `*request.add_stack() = stack[i]->proto_value` for i = 0 .. stack_len-1.
RECURSIVE add_stack(_, _, _, _)
add_stack(m, stack, i, acc) ==
    IF i > Len(stack) THEN acc
    ELSE add_stack(m, stack, i + 1, Append(acc, Content(m, stack[i])))

\* The result loop of grpc_client_execute_word: `result_array[i] = new
\* StackValue(); result_array[i]->proto_value = response.result_stack(i)`.
RECURSIVE result_loop(_, _, _, _)
result_loop(m, result_stack, i, acc) ==
    IF i > Len(result_stack) THEN [mem |-> m, addrs |-> acc]
    ELSE LET cell == NewCell(m)
             m1 == AssignProto(m, cell, result_stack[i])
         IN  result_loop(m1, result_stack, i + 1, Append(acc, cell))

\* The return value of a call that did not return.
NoReturn == 0 - 1

\* What a call assigned through the out-pointers: nothing.
WroteNothing == [result_stack |-> FALSE, result_len |-> FALSE, error |-> FALSE]

\* A failed RPC also clears the outputs.
transport_failure_clearing(h, status) ==
    [mem |-> h.mem, containers |-> h.containers, errs |-> h.errs,
     ret |-> status_to_error_code(status),
     wrote |-> [result_stack |-> TRUE, result_len |-> TRUE, error |-> TRUE],
     result_stack |-> NULL, result_len |-> 0, error |-> NULL, crashed |-> FALSE]

\* `if (!status.ok()) return status_to_error_code(status);`
transport_failure(h, status) ==
    [mem |-> h.mem, containers |-> h.containers, errs |-> h.errs,
     ret |-> status_to_error_code(status), wrote |-> WroteNothing,
     result_stack |-> NULL, result_len |-> 0, error |-> NULL, crashed |-> FALSE]

\* The branch `if (response.has_error())`.  out_error is not checked for
\* null: the store `*out_error = error` through a null pointer is undefined,
\* and either ends the process there (ub = "crash") or has no effect
\* (ub = "continue").
application_failure(h, response, out_error, ub) ==
    LET error == NewSlot(h.errs)
        es == [h.errs EXCEPT ![error] = [live |-> TRUE, message |-> response.error.message,
                                         runtime |-> response.error.runtime,
                                         error_type |-> response.error.error_type]]
    IN  IF ~out_error /\ ub = "crash"
        THEN [mem |-> h.mem, containers |-> h.containers, errs |-> es,
              ret |-> NoReturn, wrote |-> WroteNothing,
              result_stack |-> NULL, result_len |-> 0, error |-> NULL, crashed |-> TRUE]
        ELSE [mem |-> h.mem, containers |-> h.containers, errs |-> es,
              ret |-> GRPC_OK,
              wrote |-> [result_stack |-> TRUE, result_len |-> TRUE, error |-> out_error],
              result_stack |-> NULL, result_len |-> 0,
              error |-> IF out_error THEN error ELSE NULL, crashed |-> FALSE]

\* The result branch.  *out_result_stack and *out_result_len are assigned
\* before `*out_error = nullptr`, which is undefined for a null out_error.
convert_result_stack(h, response, out_error, null_on_zero, ub) ==
    LET result_len == Len(response.result_stack)
        result_array == Malloc(h.containers, result_len, null_on_zero)
        r == result_loop(h.mem, response.result_stack, 1, <<>>)
        cs == IF result_array = NULL THEN h.containers
              ELSE [h.containers EXCEPT ![result_array] = [live |-> TRUE, items |-> r.addrs]]
        crashed == ~out_error /\ ub = "crash"
    IN  [mem |-> r.mem, containers |-> cs, errs |-> h.errs,
         ret |-> IF crashed THEN NoReturn ELSE GRPC_OK,
         wrote |-> [result_stack |-> TRUE, result_len |-> TRUE, error |-> out_error],
         result_stack |-> result_array, result_len |-> result_len, error |-> NULL,
         crashed |-> crashed]

\* The argument check at the head of grpc_client_execute_word; out_error is
\* not among the pointers it tests.
execute_word_rejects(client, word_name, out_result_stack, out_result_len, out_error) ==
    client = NULL \/ word_name = NullStr \/ ~out_result_stack \/ ~out_result_len

\* h: the heap (mem, containers, errs).  The out_* arguments tell whether the
\* caller passed the pointer.  response is the collaborator's answer to the
\* one `stub->ExecuteWord` call, read only when the request is sent.
grpc_client_execute_word(h, client, word_name, stack, out_result_stack, out_result_len, out_error, response, null_on_zero, ub) ==
    IF execute_word_rejects(client, word_name, out_result_stack, out_result_len, out_error)
    THEN [mem |-> h.mem, containers |-> h.containers, errs |-> h.errs,
          ret |-> GRPC_ERROR_INVALID_ARGUMENT, wrote |-> WroteNothing,
          result_stack |-> NULL, result_len |-> 0, error |-> NULL, crashed |-> FALSE,
          rpcs |-> 0]
    ELSE LET done == IF response.status # "OK" THEN transport_failure(h, response.status)
                     ELSE IF response.has_error
                     THEN application_failure(h, response, out_error, ub)
                     ELSE convert_result_stack(h, response, out_error, null_on_zero, ub)
         IN  [mem |-> done.mem, containers |-> done.containers, errs |-> done.errs,
              ret |-> done.ret, wrote |-> done.wrote, result_stack |-> done.result_stack,
              result_len |-> done.result_len, error |-> done.error, crashed |-> done.crashed,
              rpcs |-> 1]

\* ------------------------------------------------------------ the caller

\* The payloads the caller constructs values with.
IntVals == {42}
StrVals == {"x"}
BoolVals == {TRUE}
FloatVals == {"1.5"}
WordNames == {"add"}
Addresses == {"", "localhost:50051"}

\* The StackValue handles the caller may pass: the ones it holds itself and
\* the elements of the pointer arrays it holds.
Held == owned.values \cup UNION {{containers[b.ptr].items[i] : i \in 1..b.len} : b \in owned.arrays}

ReadFault(m, hs) ==
    IF \E h \in hs : h # NULL /\ Released(m, h) THEN {"use_after_free"} ELSE {}
FreeFault(m, hs) ==
    IF \E h \in hs : h # NULL /\ Released(m, h) THEN {"double_free"} ELSE {}

Running == pc = "running"

CallCreateNull ==
    /\ Running /\ FreeCount(mem) >= 1
    /\ LET r == stack_value_create_null(mem)
       IN  /\ mem' = r.mem
           /\ owned' = [owned EXCEPT !.values = @ \cup {r.addr}]
           /\ last' = [op |-> "stack_value_create_null", ret |-> r.addr]
    /\ UNCHANGED <<containers, errs, clients, faults, pc>>

CallCreateInt ==
    /\ Running /\ FreeCount(mem) >= 1
    /\ \E val \in IntVals :
         LET r == stack_value_create_int(mem, val)
         IN  /\ mem' = r.mem
             /\ owned' = [owned EXCEPT !.values = @ \cup {r.addr}]
             /\ last' = [op |-> "stack_value_create_int", val |-> val, ret |-> r.addr]
    /\ UNCHANGED <<containers, errs, clients, faults, pc>>

CallCreateString ==
    /\ Running /\ FreeCount(mem) >= 1
    /\ \E val \in StrVals :
         LET r == stack_value_create_string(mem, val)
         IN  /\ mem' = r.mem
             /\ owned' = [owned EXCEPT !.values = @ \cup {r.addr}]
             /\ last' = [op |-> "stack_value_create_string", val |-> val, ret |-> r.addr]
    /\ UNCHANGED <<containers, errs, clients, faults, pc>>

CallCreateBool ==
    /\ Running /\ FreeCount(mem) >= 1
    /\ \E val \in BoolVals :
         LET r == stack_value_create_bool(mem, val)
         IN  /\ mem' = r.mem
             /\ owned' = [owned EXCEPT !.values = @ \cup {r.addr}]
             /\ last' = [op |-> "stack_value_create_bool", val |-> val, ret |-> r.addr]
    /\ UNCHANGED <<containers, errs, clients, faults, pc>>

CallCreateFloat ==
    /\ Running /\ FreeCount(mem) >= 1
    /\ \E val \in FloatVals :
         LET r == stack_value_create_float(mem, val)
         IN  /\ mem' = r.mem
             /\ owned' = [owned EXCEPT !.values = @ \cup {r.addr}]
             /\ last' = [op |-> "stack_value_create_float", val |-> val, ret |-> r.addr]
    /\ UNCHANGED <<containers, errs, clients, faults, pc>>

\* The items are handles the caller holds; len is their number.
CallCreateArray ==
    /\ Running
    /\ \E items \in SeqsUpTo(owned.values, MaxLen) :
         /\ FreeCount(mem) >= 1 + SizeOfAll([i \in DOMAIN items |-> Content(mem, items[i])])
         /\ \E r \in {stack_value_create_array(mem, items)} :
                /\ mem' = r.mem
                /\ owned' = [owned EXCEPT !.values = @ \cup {r.addr}]
                /\ faults' = faults \cup ReadFault(mem, {items[i] : i \in DOMAIN items})
                /\ last' = [op |-> "stack_value_create_array", items |-> items, ret |-> r.addr]
    /\ UNCHANGED <<containers, errs, clients, pc>>

CallGetType ==
    /\ Running
    /\ \E value \in Held \cup {NULL} :
         /\ faults' = faults \cup ReadFault(mem, {value})
         /\ last' = [op |-> "stack_value_get_type", value |-> value,
                     ret |-> stack_value_get_type(mem, value)]
    /\ UNCHANGED <<mem, containers, errs, clients, owned, pc>>

CallGetInt ==
    /\ Running
    /\ \E value \in Held \cup {NULL} :
         /\ faults' = faults \cup ReadFault(mem, {value})
         /\ last' = [op |-> "stack_value_get_int", value |-> value,
                     ret |-> stack_value_get_int(mem, value)]
    /\ UNCHANGED <<mem, containers, errs, clients, owned, pc>>

CallGetString ==
    /\ Running
    /\ \E value \in Held \cup {NULL} :
         /\ faults' = faults \cup ReadFault(mem, {value})
         /\ last' = [op |-> "stack_value_get_string", value |-> value,
                     ret |-> stack_value_get_string(mem, value)]
    /\ UNCHANGED <<mem, containers, errs, clients, owned, pc>>

CallGetBool ==
    /\ Running
    /\ \E value \in Held \cup {NULL} :
         /\ faults' = faults \cup ReadFault(mem, {value})
         /\ last' = [op |-> "stack_value_get_bool", value |-> value,
                     ret |-> stack_value_get_bool(mem, value)]
    /\ UNCHANGED <<mem, containers, errs, clients, owned, pc>>

CallGetFloat ==
    /\ Running
    /\ \E value \in Held \cup {NULL} :
         /\ faults' = faults \cup ReadFault(mem, {value})
         /\ last' = [op |-> "stack_value_get_float", value |-> value,
                     ret |-> stack_value_get_float(mem, value)]
    /\ UNCHANGED <<mem, containers, errs, clients, owned, pc>>

\* The caller passes the addresses of two fresh variables, or a null pointer
\* for one of them.  `wrote` tells whether the variables were assigned;
\* `items` and `len` are what they were assigned.
CallGetArray ==
    /\ Running
    /\ \E value \in Held \cup {NULL}, slots \in {<<TRUE, TRUE>>, <<FALSE, TRUE>>, <<TRUE, FALSE>>},
          null_on_zero \in BOOLEAN :
         LET copies == value # NULL /\ slots = <<TRUE, TRUE>> /\ has_array_value(mem[value])
             len == IF copies THEN Len(mem[value].items) ELSE 0
         IN  /\ copies => FreeCount(mem) >= TreeSize(Content(mem, value)) - 1
             /\ copies /\ ~(len = 0 /\ null_on_zero) => HasBlock(containers)
             /\ ~(copies /\ len = 0) => null_on_zero
             /\ \E r \in {stack_value_get_array(mem, containers, value, slots[1], slots[2],
                                                null_on_zero)} :
                    /\ mem' = r.mem
                    /\ containers' = r.containers
                    /\ owned' = IF r.items # NULL
                                THEN [owned EXCEPT !.arrays = @ \cup {[ptr |-> r.items, len |-> r.len]}]
                                ELSE owned
                    /\ faults' = faults \cup ReadFault(mem, {value})
                    /\ last' = [op |-> "stack_value_get_array", value |-> value,
                                out_items |-> slots[1], out_len |-> slots[2],
                                wrote |-> r.wrote, items |-> r.items, len |-> r.len]
    /\ UNCHANGED <<errs, clients, pc>>

CallDestroy ==
    /\ Running
    /\ \E value \in owned.values \cup {NULL} :
         /\ mem' = stack_value_destroy(mem, value)
         /\ owned' = [owned EXCEPT !.values = @ \ {value}]
         /\ faults' = faults \cup FreeFault(mem, {value})
         /\ last' = [op |-> "stack_value_destroy", value |-> value]
    /\ UNCHANGED <<containers, errs, clients, pc>>

\* The caller passes a pointer array it holds with the length it was given,
\* or the null pointer.
CallArrayDestroy ==
    /\ Running
    /\ \E b \in owned.arrays \cup {[ptr |-> NULL, len |-> 0]} :
         LET r == stack_value_array_destroy(mem, containers, b.ptr, b.len)
         IN  /\ mem' = r.mem
             /\ containers' = r.containers
             /\ owned' = [owned EXCEPT !.arrays = @ \ {b}]
             /\ faults' = faults \cup
                    (IF b.ptr = NULL THEN {}
                     ELSE FreeFault(mem, {containers[b.ptr].items[i] : i \in 1..b.len}))
             /\ last' = [op |-> "stack_value_array_destroy", array |-> b.ptr, len |-> b.len]
    /\ UNCHANGED <<errs, clients, pc>>

CallClientCreate ==
    /\ Running
    /\ \E address \in Addresses \cup {NullStr}, out_client \in BOOLEAN :
         /\ address # NullStr /\ out_client => HasSlot(clients)
         /\ LET r == grpc_client_create(clients, address, out_client)
            IN  /\ clients' = r.clients
                /\ owned' = IF r.wrote THEN [owned EXCEPT !.clients = @ \cup {r.client}] ELSE owned
                /\ last' = [op |-> "grpc_client_create", address |-> address,
                            out_client |-> out_client, ret |-> r.ret, wrote |-> r.wrote,
                            client |-> r.client]
    /\ UNCHANGED <<mem, containers, errs, faults, pc>>

CallClientDestroy ==
    /\ Running
    /\ \E client \in owned.clients \cup {NULL} :
         /\ clients' = grpc_client_destroy(clients, client)
         /\ owned' = [owned EXCEPT !.clients = @ \ {client}]
         /\ last' = [op |-> "grpc_client_destroy", client |-> client]
    /\ UNCHANGED <<mem, containers, errs, faults, pc>>

CallErrorInfoDestroy ==
    /\ Running
    /\ \E error \in owned.errors \cup {NULL} :
         /\ errs' = error_info_destroy(errs, error)
         /\ owned' = [owned EXCEPT !.errors = @ \ {error}]
         /\ last' = [op |-> "error_info_destroy", error |-> error]
    /\ UNCHANGED <<mem, containers, clients, faults, pc>>

\* ------------------------------------------------------ the collaborator

\* Values only the remote runtime makes.
RecordValue == [ProtoStackValue EXCEPT !.case = "record_value", !.other = "{k: 1}"]

NoError == [message |-> "", runtime |-> "", error_type |-> ""]
AppErrors ==
    {[message |-> "Unknown word: add", runtime |-> "python", error_type |-> "UnknownWord"]}

NoRequest == [word_name |-> "", stack |-> <<>>]
NoResponse == [status |-> "NONE", has_error |-> FALSE, error |-> NoError, result_stack |-> <<>>]

\* A collaborator is the transport statuses it may end the RPC with, the
\* errors it may report and the ways it may fill the result stack: leave it
\* empty, echo the request's stack, answer one record.
AnyCollaborator ==
    [statuses |-> StatusCodes, errors |-> AppErrors, replies |-> {"empty", "echo", "record"}]
EchoCollaborator ==
    [statuses |-> {"OK"}, errors |-> {}, replies |-> {"echo"}]

ResultStacks(request, replies) ==
    {<<>> : k \in replies \cap {"empty"}}
    \cup {request.stack : k \in replies \cap {"echo"}}
    \cup {<<RecordValue>> : k \in replies \cap {"record"}}

\* The answers to one ExecuteWord call: a failed RPC with one of the statuses,
\* a response that carries an error, or one that carries a result stack.
Responses(request, collaborator) ==
    {[status |-> s, has_error |-> FALSE, error |-> NoError, result_stack |-> <<>>] :
        s \in collaborator.statuses \ {"OK"}}
    \cup {[status |-> "OK", has_error |-> TRUE, error |-> e, result_stack |-> rs] :
            e \in collaborator.errors, rs \in {<<>>, <<RecordValue>>}}
    \cup {[status |-> "OK", has_error |-> FALSE, error |-> NoError, result_stack |-> rs] :
            rs \in ResultStacks(request, collaborator.replies)}

\* The calls the caller makes: every argument passed, or all but one.
Absences == {"none", "client", "word_name", "out_result_stack", "out_result_len", "out_error"}

\* `absences` are the arguments the caller may leave out.
CallExecuteWord(collaborator, absences) ==
    /\ Running
    /\ \E c \in owned.clients, w \in WordNames, stack \in SeqsUpTo(owned.values, MaxLen),
          absent \in absences :
         LET client == IF absent = "client" THEN NULL ELSE c
             word_name == IF absent = "word_name" THEN NullStr ELSE w
             out_result_stack == absent # "out_result_stack"
             out_result_len == absent # "out_result_len"
             out_error == absent # "out_error"
             rejected == execute_word_rejects(client, word_name, out_result_stack,
                                              out_result_len, out_error)
             request == IF rejected THEN NoRequest
                        ELSE [word_name |-> word_name, stack |-> add_stack(mem, stack, 1, <<>>)]
         IN  \E response \in (IF rejected THEN {NoResponse}
                               ELSE Responses(request, collaborator)) :
               LET ok == ~rejected /\ response.status = "OK"
                   converts == ok /\ ~response.has_error
                   h == [mem |-> mem, containers |-> containers, errs |-> errs]
               IN  \E null_on_zero \in (IF converts /\ response.result_stack = <<>>
                                        THEN BOOLEAN ELSE {TRUE}),
                      ub \in (IF ok /\ ~out_error THEN {"crash", "continue"} ELSE {"crash"}) :
                   /\ ok /\ response.has_error => HasSlot(errs)
                   /\ converts => FreeCount(mem) >= SizeOfAll(response.result_stack)
                   /\ converts /\ ~(response.result_stack = <<>> /\ null_on_zero)
                        => HasBlock(containers)
                   /\ \E r \in {grpc_client_execute_word(h, client, word_name, stack,
                                   out_result_stack, out_result_len, out_error,
                                   response, null_on_zero, ub)} :
                          /\ mem' = r.mem
                          /\ containers' = r.containers
                          /\ errs' = r.errs
                          /\ pc' = IF r.crashed THEN "crashed" ELSE pc
                          /\ owned' =
                               IF r.crashed THEN owned
                               ELSE [owned EXCEPT
                                       !.arrays = IF r.wrote.result_stack /\ r.result_stack # NULL
                                                  THEN @ \cup {[ptr |-> r.result_stack, len |-> r.result_len]}
                                                  ELSE @,
                                       !.errors = IF r.wrote.error /\ r.error # NULL
                                                  THEN @ \cup {r.error} ELSE @]
                          /\ faults' = faults \cup
                               (IF rejected THEN {} ELSE ReadFault(mem, {stack[i] : i \in DOMAIN stack}))
                          /\ last' = [op |-> "grpc_client_execute_word", client |-> client,
                                      word_name |-> word_name, stack |-> stack,
                                      out_result_stack |-> out_result_stack,
                                      out_result_len |-> out_result_len,
                                      out_error |-> out_error,
                                      rpcs |-> r.rpcs, request |-> request, response |-> response,
                                      crashed |-> r.crashed, ret |-> r.ret, wrote |-> r.wrote,
                                      result_stack |-> r.result_stack,
                                      result_len |-> r.result_len, error |-> r.error]
    /\ UNCHANGED clients

\* -------------------------------------------------------- specifications

\* After construction: a heap of n free cells, nothing allocated.
InitHeap(n) ==
    /\ mem = [a \in 1..n |-> FreeCell]
    /\ containers = [p \in 1..MaxContainers |-> [live |-> FALSE, items |-> <<>>]]
    /\ errs = [e \in 1..MaxErrors |-> NoErrorInfo]
    /\ clients = [c \in 1..MaxClients |-> [live |-> FALSE, address |-> ""]]
    /\ owned = [values |-> {}, arrays |-> {}, errors |-> {}, clients |-> {}]
    /\ faults = {}
    /\ pc = "running"
    /\ last = [op |-> "none"]

\* The client API against every transport status, with the values to call it with.
Init == InitHeap(ClientHeap)

Next ==
    \/ CallCreateInt
    \/ CallDestroy
    \/ CallArrayDestroy
    \/ CallClientCreate
    \/ CallClientDestroy
    \/ CallErrorInfoDestroy
    \/ CallExecuteWord(AnyCollaborator, Absences)

Spec == Init /\ [][Next]_vars

\* The StackValue API on its own: arrays built, read back and released.
ValueInit == InitHeap(ValueHeap)

ValueNext ==
    \/ CallCreateInt
    \/ CallCreateNull
    \/ CallCreateArray
    \/ CallGetArray
    \/ CallDestroy
    \/ CallArrayDestroy

SpecValue == ValueInit /\ [][ValueNext]_vars

\* Every constructor and every accessor.
AccessInit == InitHeap(AccessHeap)

AccessNext ==
    \/ CallCreateNull
    \/ CallCreateInt
    \/ CallCreateString
    \/ CallCreateBool
    \/ CallCreateFloat
    \/ CallCreateArray
    \/ CallGetType
    \/ CallGetInt
    \/ CallGetString
    \/ CallGetBool
    \/ CallGetFloat
    \/ CallGetArray
    \/ CallDestroy
    \/ CallArrayDestroy

SpecAccess == AccessInit /\ [][AccessNext]_vars

\* Values through the array codec and through a call.  A client has been created.
CodecInit ==
    /\ mem = [a \in 1..CodecHeap |-> FreeCell]
    /\ containers = [p \in 1..MaxContainers |-> [live |-> FALSE, items |-> <<>>]]
    /\ errs = [e \in 1..MaxErrors |-> NoErrorInfo]
    /\ clients = grpc_client_create([c \in 1..MaxClients |-> [live |-> FALSE, address |-> ""]],
                                    "localhost:50051", TRUE).clients
    /\ owned = [values |-> {}, arrays |-> {}, errors |-> {}, clients |-> {1}]
    /\ faults = {}
    /\ pc = "running"
    /\ last = [op |-> "none"]

CodecNext ==
    \/ CallCreateInt
    \/ CallCreateArray
    \/ CallGetArray
    \/ CallDestroy
    \/ CallArrayDestroy
    \/ CallExecuteWord(EchoCollaborator, {"none", "out_error"})

SpecCodec == CodecInit /\ [][CodecNext]_vars


\* ----------------------------------------------------------- properties

Executed == last.op = "grpc_client_execute_word"
Sent == Executed /\ last.rpcs = 1

\* The contents of the len values of a pointer array, in index order.
ItemsOf(ptr, len) == [i \in 1..len |-> Content(mem, containers[ptr].items[i])]

\* C1: every call whose RPC ends with an OK status returns GRPC_OK and reports
\* exactly one of two outcomes: for a response with an error, a non-null
\* ErrorInfo holding its message, runtime and error_type, with the result
\* stack output empty (null, 0); for a response without, a null error output
\* and the response's result_stack in the result stack output.
C1_DualChannelExclusivity ==
    Sent /\ last.response.status = "OK" =>
        /\ ~last.crashed
        /\ last.ret = GRPC_OK
        /\ last.wrote = [result_stack |-> TRUE, result_len |-> TRUE, error |-> TRUE]
        /\ IF last.response.has_error
           THEN /\ last.error # NULL
                /\ errs[last.error].live
                /\ error_info_get_message(errs, last.error) = last.response.error.message
                /\ error_info_get_runtime(errs, last.error) = last.response.error.runtime
                /\ error_info_get_error_type(errs, last.error) = last.response.error.error_type
                /\ last.result_stack = NULL
                /\ last.result_len = 0
           ELSE /\ last.error = NULL
                /\ last.result_len = Len(last.response.result_stack)
                /\ ItemsOf(last.result_stack, last.result_len) = last.response.result_stack

\* C2: a call whose RPC ends with a status other than OK returns the code
\* that status maps to, which is never GRPC_OK, allocates no ErrorInfo, no
\* value and no pointer array, and assigns none of its three outputs.
C2_TransportFailureFrame ==
    [][(last'.op = "grpc_client_execute_word" /\ last'.rpcs = 1 /\ last'.response.status # "OK")
         => /\ ~last'.crashed
            /\ last'.ret = status_to_error_code(last'.response.status)
            /\ last'.ret # GRPC_OK
            /\ last'.wrote = WroteNothing
            /\ mem' = mem
            /\ containers' = containers
            /\ errs' = errs
            /\ owned' = owned
            /\ pc' = pc]_vars

\* A failed call made with a non-empty stack while an earlier result stack is
\* still held.
C2_Witness ==
    /\ Sent
    /\ last.response.status = "UNAVAILABLE"
    /\ last.ret = GRPC_ERROR_UNAVAILABLE
    /\ last.stack # <<>>
    /\ owned.arrays # {}

\* C3: grpc_client_create returns InvalidArgument, creates no client and
\* leaves the output slot alone when the address is absent or empty or the
\* slot is absent; otherwise it returns GRPC_OK and stores a new client.
C3_CreateRejectsUnusableAddress ==
    last.op = "grpc_client_create" =>
        IF last.address = NullStr \/ last.address = "" \/ ~last.out_client
        THEN last.ret = GRPC_ERROR_INVALID_ARGUMENT /\ ~last.wrote /\ last.client = NULL
        ELSE last.ret = GRPC_OK /\ last.wrote /\ last.client # NULL /\ clients[last.client].live

\* C4: a call with the client, the word name or any of the three output
\* pointers absent returns InvalidArgument, sends no request, assigns no
\* output and does not fail.
C4_ValidatesEveryArgument ==
    Executed /\ (\/ last.client = NULL
                 \/ last.word_name = NullStr
                 \/ ~last.out_result_stack
                 \/ ~last.out_result_len
                 \/ ~last.out_error)
        => /\ last.rpcs = 0
           /\ ~last.crashed
           /\ last.ret = GRPC_ERROR_INVALID_ARGUMENT
           /\ last.wrote = WroteNothing

\* The taxonomy member that carries the name of a status.
SameNamed ==
    [s \in {"INVALID_ARGUMENT", "NOT_FOUND", "ALREADY_EXISTS", "PERMISSION_DENIED",
            "RESOURCE_EXHAUSTED", "FAILED_PRECONDITION", "ABORTED", "OUT_OF_RANGE",
            "UNIMPLEMENTED", "INTERNAL", "UNAVAILABLE", "DATA_LOSS", "UNAUTHENTICATED"} |->
        CASE s = "INVALID_ARGUMENT" -> GRPC_ERROR_INVALID_ARGUMENT
          [] s = "NOT_FOUND" -> GRPC_ERROR_NOT_FOUND
          [] s = "ALREADY_EXISTS" -> GRPC_ERROR_ALREADY_EXISTS
          [] s = "PERMISSION_DENIED" -> GRPC_ERROR_PERMISSION_DENIED
          [] s = "RESOURCE_EXHAUSTED" -> GRPC_ERROR_RESOURCE_EXHAUSTED
          [] s = "FAILED_PRECONDITION" -> GRPC_ERROR_FAILED_PRECONDITION
          [] s = "ABORTED" -> GRPC_ERROR_ABORTED
          [] s = "OUT_OF_RANGE" -> GRPC_ERROR_OUT_OF_RANGE
          [] s = "UNIMPLEMENTED" -> GRPC_ERROR_UNIMPLEMENTED
          [] s = "INTERNAL" -> GRPC_ERROR_INTERNAL
          [] s = "UNAVAILABLE" -> GRPC_ERROR_UNAVAILABLE
          [] s = "DATA_LOSS" -> GRPC_ERROR_DATA_LOSS
          [] s = "UNAUTHENTICATED" -> GRPC_ERROR_UNAUTHENTICATED]

MappedCode(s) ==
    IF s = "OK" THEN GRPC_OK
    ELSE IF s \in DOMAIN SameNamed THEN SameNamed[s]
    ELSE GRPC_ERROR_UNKNOWN

\* C5 (as the code has it): OK maps to GRPC_OK; each of the thirteen statuses
\* with a taxonomy member of its own name maps to that member, which is
\* neither GRPC_OK nor GRPC_ERROR_UNKNOWN, and no two of them to the same
\* one; every other status (CANCELLED, UNKNOWN, DEADLINE_EXCEEDED and any
\* value gRPC does not define) maps to GRPC_ERROR_UNKNOWN; and a call whose
\* RPC fails returns the code its status maps to.
C5_StatusMapping ==
    /\ \A s \in StatusCodes : status_to_error_code(s) = MappedCode(s)
    /\ \A s \in DOMAIN SameNamed : SameNamed[s] \notin {GRPC_OK, GRPC_ERROR_UNKNOWN}
    /\ \A s, t \in DOMAIN SameNamed : SameNamed[s] = SameNamed[t] => s = t
    /\ Sent /\ last.response.status # "OK" => last.ret = MappedCode(last.response.status)

\* A call whose RPC ran out of time returned GRPC_ERROR_UNKNOWN.
C5_Witness ==
    /\ Sent
    /\ last.response.status = "DEADLINE_EXCEEDED"
    /\ last.ret = GRPC_ERROR_UNKNOWN

\* C5 (as stated): a call whose RPC fails with a status gRPC defines returns
\* a taxonomy member other than GRPC_ERROR_UNKNOWN, and only a status gRPC
\* does not define gives GRPC_ERROR_UNKNOWN.
C5_ExhaustiveMapping ==
    Sent /\ last.response.status # "OK" =>
        (last.ret = GRPC_ERROR_UNKNOWN <=> last.response.status \in NovelStatusCodes)

\* The tag a constructor gives, by the case it sets.
TagOf(proto) ==
    CASE proto.case = "null_value" -> STACK_VALUE_NULL
      [] proto.case = "int_value" -> STACK_VALUE_INT
      [] proto.case = "string_value" -> STACK_VALUE_STRING
      [] proto.case = "bool_value" -> STACK_VALUE_BOOL
      [] proto.case = "float_value" -> STACK_VALUE_FLOAT
      [] proto.case = "array_value" -> STACK_VALUE_ARRAY

\* C6: an accessor applied to a value of another tag, an absent value counting
\* as Null, returns its default (0, "", false, 0.0, and for get_array no items
\* and count 0); applied to a value of its own tag it returns the payload; and
\* get_type returns the tag of the constructor used.
C6_DefaultOnMismatch ==
    /\ last.op = "stack_value_get_type" =>
         last.ret = IF last.value = NULL THEN STACK_VALUE_NULL ELSE TagOf(mem[last.value])
    /\ last.op = "stack_value_get_int" =>
         last.ret = IF last.value # NULL /\ mem[last.value].case = "int_value"
                    THEN mem[last.value].int_value ELSE 0
    /\ last.op = "stack_value_get_string" =>
         last.ret = IF last.value # NULL /\ mem[last.value].case = "string_value"
                    THEN mem[last.value].string_value ELSE ""
    /\ last.op = "stack_value_get_bool" =>
         last.ret = IF last.value # NULL /\ mem[last.value].case = "bool_value"
                    THEN mem[last.value].bool_value ELSE FALSE
    /\ last.op = "stack_value_get_float" =>
         last.ret = IF last.value # NULL /\ mem[last.value].case = "float_value"
                    THEN mem[last.value].float_value ELSE "0.0"
    /\ last.op = "stack_value_get_array" /\ last.out_items /\ last.out_len =>
         /\ last.wrote
         /\ IF last.value # NULL /\ mem[last.value].case = "array_value"
            THEN last.len = Len(mem[last.value].items)
            ELSE last.items = NULL /\ last.len = 0

\* The array element slots that store cell a.
ElementSlots(a) ==
    {s \in (DOMAIN mem) \X (DOMAIN mem) :
        /\ ~IsFree(mem, s[1])
        /\ s[2] \in DOMAIN mem[s[1]].items
        /\ mem[s[1]].items[s[2]] = a}

\* The owners of a cell: the slots that store it, and the caller when it
\* holds the cell's handle.
OwnerCount(a) == Cardinality(ElementSlots(a)) + (IF a \in Held THEN 1 ELSE 0)

\* Every handle the caller holds is readable, no cell has two owners, and the
\* values below two handles share no cell.
SingleOwner ==
    /\ \A h \in Held : ~Released(mem, h)
    /\ \A a \in DOMAIN mem : OwnerCount(a) <= 1
    /\ \A g, h \in Held : g # h => Reach(mem, g) \cap Reach(mem, h) = {}

\* No call changes the tag, the length or an element of a value the caller
\* holds before and after it.
HeldUnchanged == \A h \in Held \cap Held' : Content(mem', h) = Content(mem, h)

\* C7: the array made by stack_value_create_array and the items returned by
\* stack_value_get_array are copies: destroying the original items, the
\* parent or the returned items, in any order, leaves every other value the
\* caller holds unchanged and readable, and no value has two owners.
C7_ArrayCopySemantics == []SingleOwner /\ [][HeldUnchanged]_vars

\* The parent, and every value the caller made, has been destroyed; the item
\* that stack_value_get_array returned still reads as the integer it copies.
C7_Witness ==
    /\ last.op = "stack_value_destroy"
    /\ last.value # NULL
    /\ owned.values = {}
    /\ \E b \in owned.arrays :
         /\ b.len = 1
         /\ ItemsOf(b.ptr, b.len) = <<set_int_value(ProtoStackValue, 42)>>

\* C8: (a) the array made by stack_value_create_array(items) holds, in index
\* order, the tag and payload of each item, nested arrays included, and
\* stack_value_get_array returns, in index order, as many items as the array
\* has, each equal to the element; (b) grpc_client_execute_word sends the
\* stack in index order and returns the response's result stack in index
\* order, so a call answered with an echo returns its own stack.
C8_RoundTrip ==
    /\ last.op = "stack_value_create_array" =>
         Content(mem, last.ret) =
             [mutable_array_value(ProtoStackValue) EXCEPT
                 !.items = [i \in DOMAIN last.items |-> Content(mem, last.items[i])]]
    /\ last.op = "stack_value_get_array" /\ last.wrote /\ has_array_value(mem[last.value]) =>
         /\ last.len = Len(mem[last.value].items)
         /\ ItemsOf(last.items, last.len) = Content(mem, last.value).items
    /\ Sent => last.request.stack = [i \in DOMAIN last.stack |-> Content(mem, last.stack[i])]
    /\ Sent /\ last.response.status = "OK" /\ ~last.response.has_error =>
         /\ last.wrote.result_stack /\ last.wrote.result_len
         /\ last.result_len = Len(last.response.result_stack)
         /\ ItemsOf(last.result_stack, last.result_len) = last.response.result_stack
    /\ Sent /\ ~last.crashed /\ last.ret = GRPC_OK /\ ~last.response.has_error
            /\ last.response.result_stack = last.request.stack =>
         /\ last.result_len = Len(last.stack)
         /\ \A i \in 1..last.result_len :
              Content(mem, containers[last.result_stack].items[i]) = Content(mem, last.stack[i])

\* An echoed call returned two values, the integer first and the array second.
C8_Witness ==
    /\ Sent
    /\ ~last.crashed
    /\ last.ret = GRPC_OK
    /\ last.result_len = 2
    /\ last.result_stack # NULL
    /\ ItemsOf(last.result_stack, 2) =
         <<set_int_value(ProtoStackValue, 42), mutable_array_value(ProtoStackValue)>>
    /\ Content(mem, last.stack[1]) = set_int_value(ProtoStackValue, 42)
    /\ Content(mem, last.stack[2]) = mutable_array_value(ProtoStackValue)

\* Everything allocated is what the caller holds: the cells below its
\* handles, its pointer arrays, its ErrorInfos and its clients.
NoLeak ==
    /\ {a \in DOMAIN mem : ~IsFree(mem, a)} = UNION {Reach(mem, h) : h \in Held}
    /\ {p \in DOMAIN containers : containers[p].live} = {b.ptr : b \in owned.arrays}
    /\ {e \in DOMAIN errs : errs[e].live} = owned.errors
    /\ {c \in DOMAIN clients : clients[c].live} = owned.clients

\* C9: while the caller destroys each handle it was given once, with the
\* matching destroy, no handle is released twice, no call reads a released
\* handle, and every allocation is one the caller was given and can still
\* destroy, so none remains once it has destroyed them all.
C9_SingleOwnerLifetime ==
    /\ faults = {}
    /\ pc = "running" => NoLeak

\* C10: a call that was sent issued exactly one RPC and left the client
\* usable for the next call, whatever the call ended in.
C10_CallIndependence ==
    Sent => /\ last.rpcs = 1
            /\ pc = "running"
            /\ clients[last.client].live
            /\ last.client \in owned.clients
====
